---- MODULE Spec2Model ----
(***************************************************************************)
(* Admission control of the rendering service (src/src/index.ts).          *)
(*                                                                         *)
(* ConcurrencyGate bounds the number of simultaneous render calls of one   *)
(* worker process and queues or rejects the overflow.  The POST /render    *)
(* handler asks the gate for admission before it calls render and gives    *)
(* the slot back in its finally block.                                     *)
(*                                                                         *)
(* A worker runs one cooperative event loop: the code between two awaits   *)
(* runs without interruption, so every action below is one such piece of   *)
(* a handler, and the handlers interleave only at their awaits.            *)
(*                                                                         *)
(* Requests are numbered in the order in which their handlers start.       *)
(***************************************************************************)
EXTENDS Integers, Sequences, FiniteSets, TLC

\* ---------------------------------------------------------------- bounds
NumReq == 5          \* number of POST /render requests of one behaviour
MaxActiveBound == 2  \* largest configured maxActive
MaxQueueBound == 2   \* largest configured maxQueue
GateReq == 4         \* number of requests of one behaviour of GateSpec
MaxStray == 1        \* release() calls without a matching acquire()
LiveReq == 3         \* number of requests of one behaviour of LiveSpec
MaxNegActive == 1    \* smallest configured maxActive of OpenSpec, negated
MaxParallelism == 3  \* largest os.availableParallelism()
MaxWorkersEnv == 4   \* largest number the WORKERS setting holds
MaxExits == 3        \* number of worker exits of one behaviour
ShutReq == 3         \* number of requests of one behaviour of ShutSpec
MaxSignals == 2      \* number of signals one worker receives

Req == 1..NumReq

\* ------------------------------------------------------ program constants
NoReq == 0           \* queue.shift() on an empty queue: undefined
StatusOk == 200
StatusInvalid == 400
StatusBusy == 503
\* faulty variant: a render failure answered 503
StatusInternalAsBusy == StatusBusy
StatusInternal == 500
NoStatus == 0        \* no response sent yet
DefaultWorkers == 4  \* the fallback of WORKERS in the first bootstrap
NullCode == -1       \* the exit code null of a worker killed by a signal
NoEnv == 0           \* SERVER_WORKER_COUNT of a worker not forked yet
NoParallelism == 0   \* os.availableParallelism() not read yet
ExitStatus == 0      \* process.exit(0) of the shutdown callbacks

VARIABLES
  maxActive,   \* ConcurrencyGate.maxActive (readonly)
  maxQueue,    \* ConcurrencyGate.maxQueue (readonly)
  active,      \* ConcurrencyGate.active
  queue,       \* ConcurrencyGate.queue: the entry closures, by their request
  pc,          \* position of each request's handler
  acquired,    \* the handler's local flag `acquired`
  status,      \* HTTP status of the response, NoStatus before it is sent
  arrived,     \* number of handlers started so far
  holds,       \* history: the gate admitted the request and it has not released
  admitted,    \* history: the gate has admitted the request (acquire resolved)
  releases,    \* history: number of release() calls made by each handler
  enqOrder,    \* history: requests in the order of queue.push
  grantOrder,  \* history: requests in the order their entry() was called
  stray,       \* history: number of release() calls made by no slot holder
  bootstrapCopy, \* which definition of bootstrap the primary runs: 1 is the
                 \* one of lines 376-409, 2 the one of lines 868-895
  workerCount, \* bootstrap's workerCount, 0 before bootstrap has run
  workers,     \* ids of the live worker processes
  workerEnv,   \* SERVER_WORKER_COUNT in the environment of each worker
  nextId,      \* the id cluster.fork gives the next worker
  exitEvents,  \* 'exit' events emitted and not handled yet
  exits,       \* history: number of worker exits
  restarts,    \* history: number of forks made by the 'exit' handler
  bootInput,   \* history: the WORKERS setting and the parallelism bootstrap read
  cleanExits,  \* history: number of exits with code 0 or by SIGINT or SIGTERM
  shutdownDone, \* history: workers whose exit ended their own shutdown
  listening,   \* the HTTP listener accepts connections
  shuttingDown, \* setupGracefulShutdown's flag
  sigHandlers, \* signals whose process.once listener is still installed
  closeCalls,  \* history: number of server.close calls
  timers,      \* history: number of forced-exit timers started
  procExit,    \* how the process has terminated, Running before
  signals,     \* history: number of signals delivered to the process
  queuedAtShutdown \* history: the gate's queue when shutdown began

gateVars == <<maxActive, maxQueue, active, queue>>
reqVars == <<pc, acquired, status, arrived>>
histVars == <<holds, admitted, releases, enqOrder, grantOrder, stray>>
supVars == <<bootstrapCopy, workerCount, workers, workerEnv, nextId, exitEvents,
             exits, restarts, bootInput, cleanExits, shutdownDone>>
shutVars == <<listening, shuttingDown, sigHandlers, closeCalls, timers,
              procExit, signals, queuedAtShutdown>>
vars == <<gateVars, reqVars, histVars, supVars, shutVars>>

\* ------------------------------------------------------- request bodies
\* The candidate object normalizeOptions inspects (body.options when that
\* is an object, else the body itself).
Bodies == [obj : BOOLEAN, type : {"none", "blank", "bar"}, data : BOOLEAN]

\* TRUE when normalizeOptions returns, FALSE when it throws HttpError 400.
normalizeOptions(body) ==
  IF ~body.obj THEN FALSE
  ELSE IF body.type # "bar" THEN FALSE
  ELSE IF ~body.data THEN FALSE
  ELSE TRUE

\* ------------------------------------------------------ ConcurrencyGate
\* faulty variant: only a negative maxActive opens the gate
UnboundedStrict(ma) == ma < 0

\* the guard `this.maxActive <= 0` of acquire, release and the accessors
Unbounded(ma) == ma <= 0

\* faulty variants of the guard: one slot too many, one slot too few
HasFreeSlotInclusive(a, ma) == a <= ma
HasFreeSlotEarly(a, ma) == a + 1 < ma

\* the guard `this.active < this.maxActive` of acquire
HasFreeSlot(a, ma) == a < ma

\* faulty variants of the guard: one waiter too many, one waiter too few
QueueFullLate(q, mq) == mq >= 0 /\ Len(q) > mq
QueueFullEarly(q, mq) == mq >= 0 /\ Len(q) + 1 >= mq

\* faulty variant: the guard without `this.maxQueue >= 0`
QueueFullUnsigned(q, mq) == Len(q) >= mq

\* the guard `this.maxQueue >= 0 && this.queue.length >= this.maxQueue`
QueueFull(q, mq) == mq >= 0 /\ Len(q) >= mq

\* faulty variant: the entry is put at the head of the queue (unshift)
PushFront(q, r) == <<r>> \o q

\* faulty variant: the entry replaces the queue (this.queue = [entry])
PushReplace(q, r) == <<r>>

\* this.queue.push(entry)
Push(q, r) == Append(q, r)

\* faulty variant: the decrement without its guard
DecrementUnguarded(a) == a - 1

\* the decrement of release: `if (this.active > 0) this.active -= 1`
Decrement(a) == IF a > 0 THEN a - 1 ELSE a

\* faulty variant: the last entry is taken (pop)
ShiftLast(q) ==
  IF q = <<>> THEN [next |-> NoReq, rest |-> q]
  ELSE [next |-> q[Len(q)], rest |-> SubSeq(q, 1, Len(q) - 1)]

\* faulty variant: release() never takes an entry from the queue
ShiftNever(q) == [next |-> NoReq, rest |-> q]

\* const next = this.queue.shift(): the entry taken (NoReq for undefined)
\* and the queue it leaves
Shift(q) ==
  IF q = <<>> THEN [next |-> NoReq, rest |-> q]
  ELSE [next |-> Head(q), rest |-> Tail(q)]

\* faulty variant: the waiter is resumed without being given the slot
EntryActiveNoSlot(a) == a

\* entry(): `this.active += 1`
EntryActive(a) == a + 1

\* What one acquire() call does to the gate, as the code decides it.
AcquireOutcome(a, q, ma, mq) ==
  IF Unbounded(ma) THEN "passthrough"
  ELSE IF HasFreeSlot(a, ma) THEN "immediate"
  ELSE IF QueueFull(q, mq) THEN "busy"
  ELSE "suspend"

\* What one release() call does to the gate: the new active count, the new
\* queue, and the waiter whose entry() ran (NoReq when there was none).
release(a, q, ma) ==
  IF Unbounded(ma) THEN [active |-> a, queue |-> q, next |-> NoReq]
  ELSE LET a1 == Decrement(a)
           sh == Shift(q)
       IN [active |-> IF sh.next # NoReq THEN EntryActive(a1) ELSE a1,
           queue |-> sh.rest,
           next |-> sh.next]

\* entry() of the waiter next resumes it: f with next's value set to v.
Wake(f, next, v) == IF next = NoReq THEN f ELSE [f EXCEPT ![next] = v]

getQueueSize == IF Unbounded(maxActive) THEN 0 ELSE Len(queue)
getActiveCount == IF Unbounded(maxActive) THEN 0 ELSE active

\* -------------------------------------------------------------- initial
\* a freshly constructed gate and no request yet
InitState ==
  /\ active = 0
  /\ queue = <<>>
  /\ pc = [r \in Req |-> "new"]
  /\ acquired = [r \in Req |-> FALSE]
  /\ status = [r \in Req |-> NoStatus]
  /\ arrived = 0
  /\ holds = [r \in Req |-> FALSE]
  /\ admitted = [r \in Req |-> FALSE]
  /\ releases = [r \in Req |-> 0]
  /\ enqOrder = <<>>
  /\ grantOrder = <<>>
  /\ stray = 0

WorkerIds == 1..(MaxParallelism + MaxExits)

\* bootstrap has not read its inputs yet
NoInput == [value |-> [kind |-> "unset", n |-> 0], parallelism |-> NoParallelism]

\* const signals: NodeJS.Signals[] = ['SIGINT', 'SIGTERM']
Signals == {"SIGINT", "SIGTERM"}

\* the process has not terminated
Running == [by |-> "none", code |-> NullCode, signal |-> "none"]

\* A worker after startServer: the listener accepts connections and
\* setupGracefulShutdown has installed one listener per signal.
Serving ==
  /\ listening = TRUE
  /\ shuttingDown = FALSE
  /\ sigHandlers = Signals
  /\ closeCalls = 0
  /\ timers = 0
  /\ procExit = Running
  /\ signals = 0
  /\ queuedAtShutdown = <<>>

\* The primary: bootstrap returns before startServer, so there is no
\* listener and no signal listener.
NoServer ==
  /\ listening = FALSE
  /\ shuttingDown = FALSE
  /\ sigHandlers = {}
  /\ closeCalls = 0
  /\ timers = 0
  /\ procExit = Running
  /\ signals = 0
  /\ queuedAtShutdown = <<>>

\* no worker forked yet
NoWorkers ==
  /\ workerCount = 0
  /\ workers = {}
  /\ workerEnv = [w \in WorkerIds |-> NoEnv]
  /\ nextId = 1
  /\ exitEvents = <<>>
  /\ exits = 0
  /\ restarts = 0
  /\ bootInput = NoInput
  /\ cleanExits = 0
  /\ shutdownDone = {}

\* a worker process: it runs the first definitions of the file and forks
\* nothing
InWorker == bootstrapCopy = 1 /\ NoWorkers /\ Serving

Init ==
  /\ maxActive \in 0..MaxActiveBound
  /\ maxQueue \in (-1)..MaxQueueBound
  /\ InitState
  /\ InWorker

\* gates constructed with maxActive <= 0
OpenInit ==
  /\ maxActive \in (-MaxNegActive)..0
  /\ maxQueue \in (-1)..MaxQueueBound
  /\ InitState
  /\ InWorker

\* ------------------------------------------------- POST /render handler
\* the finally block: `if (acquired) concurrencyGate.release()`
ShouldRelease(acq) == acq

\* faulty variant: acquire() is called before the body is validated, and
\* the validation error leaves the handler before `acquired = true`
ArriveInvalidAfterAcquire(r, body) ==
  /\ r = arrived + 1
  /\ pc[r] = "new"
  /\ ~normalizeOptions(body)
  /\ AcquireOutcome(active, queue, maxActive, maxQueue) \in {"immediate", "busy"}
  /\ arrived' = r
  /\ pc' = [pc EXCEPT ![r] = "done"]
  /\ IF AcquireOutcome(active, queue, maxActive, maxQueue) = "busy"
     THEN /\ status' = [status EXCEPT ![r] = StatusBusy]
          /\ UNCHANGED <<active, holds, admitted>>
     ELSE /\ status' = [status EXCEPT ![r] = StatusInvalid]
          /\ active' = active + 1
          /\ holds' = [holds EXCEPT ![r] = TRUE]
          /\ admitted' = [admitted EXCEPT ![r] = TRUE]
  /\ UNCHANGED <<maxActive, maxQueue, queue, acquired, releases, enqOrder,
                 grantOrder, stray, supVars, shutVars>>

\* The handler starts, validates the body and fails: HttpError 400 is caught,
\* the response is sent, and finally finds acquired = false.
ArriveInvalid(r, body) ==
  /\ r = arrived + 1
  /\ pc[r] = "new"
  /\ ~normalizeOptions(body)
  /\ arrived' = r
  /\ status' = [status EXCEPT ![r] = StatusInvalid]
  /\ pc' = [pc EXCEPT ![r] = "done"]
  /\ UNCHANGED <<gateVars, acquired, histVars, supVars, shutVars>>

\* The handler starts, validates the body and calls acquire(), which runs
\* up to its first await or to its return or throw.
ArriveAcquire(r, body) ==
  /\ r = arrived + 1
  /\ pc[r] = "new"
  /\ normalizeOptions(body)
  /\ arrived' = r
  /\ LET out == AcquireOutcome(active, queue, maxActive, maxQueue) IN
     CASE out = "passthrough" ->
            /\ pc' = [pc EXCEPT ![r] = "admitted"]
            /\ holds' = [holds EXCEPT ![r] = TRUE]
            /\ admitted' = [admitted EXCEPT ![r] = TRUE]
            /\ UNCHANGED <<active, queue, status, enqOrder>>
       [] out = "immediate" ->
            /\ active' = active + 1
            /\ pc' = [pc EXCEPT ![r] = "admitted"]
            /\ holds' = [holds EXCEPT ![r] = TRUE]
            /\ admitted' = [admitted EXCEPT ![r] = TRUE]
            /\ UNCHANGED <<queue, status, enqOrder>>
       [] out = "busy" ->
            \* ServiceBusyError is caught by the handler: 503, no release
            /\ status' = [status EXCEPT ![r] = StatusBusy]
            /\ pc' = [pc EXCEPT ![r] = "done"]
            /\ UNCHANGED <<active, queue, holds, admitted, enqOrder>>
       [] out = "suspend" ->
            /\ queue' = Push(queue, r)
            /\ enqOrder' = Append(enqOrder, r)
            /\ pc' = [pc EXCEPT ![r] = "queued"]
            /\ UNCHANGED <<active, status, holds, admitted>>
  /\ UNCHANGED <<maxActive, maxQueue, acquired, releases, grantOrder, stray, supVars, shutVars>>

\* faulty variant: the handler forgets `acquired = true`
EnterRenderNoFlag(r) ==
  /\ pc[r] = "admitted"
  /\ pc' = [pc EXCEPT ![r] = "render"]
  /\ UNCHANGED <<gateVars, acquired, status, arrived, histVars, supVars, shutVars>>

\* `await concurrencyGate.acquire()` resumes: acquired = true, and the
\* handler calls render.
EnterRender(r) ==
  /\ pc[r] = "admitted"
  /\ acquired' = [acquired EXCEPT ![r] = TRUE]
  /\ pc' = [pc EXCEPT ![r] = "render"]
  /\ UNCHANGED <<gateVars, status, arrived, histVars, supVars, shutVars>>

\* The catch and finally blocks of the handler of r, with the response st.
Finish(r, st) ==
  LET rel == release(active, queue, maxActive) IN
  /\ status' = [status EXCEPT ![r] = st]
  /\ IF ShouldRelease(acquired[r])
     THEN /\ active' = rel.active
          /\ queue' = rel.queue
          /\ releases' = [releases EXCEPT ![r] = @ + 1]
          /\ holds' = Wake([holds EXCEPT ![r] = FALSE], rel.next, TRUE)
          /\ admitted' = Wake(admitted, rel.next, TRUE)
          /\ grantOrder' = IF rel.next # NoReq THEN Append(grantOrder, rel.next)
                           ELSE grantOrder
          /\ pc' = Wake([pc EXCEPT ![r] = "done"], rel.next, "admitted")
     ELSE /\ pc' = [pc EXCEPT ![r] = "done"]
          /\ UNCHANGED <<active, queue, releases, holds, admitted, grantOrder>>
  /\ UNCHANGED <<maxActive, maxQueue, acquired, arrived, enqOrder, stray, supVars, shutVars>>

\* render settles.  A rejection is caught: 500, then finally.
RenderReturn(r, ok) ==
  /\ pc[r] = "render"
  /\ IF ok
     THEN /\ pc' = [pc EXCEPT ![r] = "write"]
          /\ UNCHANGED <<gateVars, acquired, status, arrived, histVars, supVars, shutVars>>
     ELSE Finish(r, StatusInternal)

\* toBuffer and fs.writeFile settle.  The response is sent, or the error is
\* caught and answered with 500; then finally.
WriteReturn(r, ok) ==
  /\ pc[r] = "write"
  /\ Finish(r, IF ok THEN StatusOk ELSE StatusInternal)

\* release() is called by code that holds no slot.
StrayRelease ==
  LET rel == release(active, queue, maxActive) IN
  /\ stray < MaxStray
  /\ stray' = stray + 1
  /\ active' = rel.active
  /\ queue' = rel.queue
  /\ holds' = Wake(holds, rel.next, TRUE)
  /\ admitted' = Wake(admitted, rel.next, TRUE)
  /\ grantOrder' = IF rel.next # NoReq THEN Append(grantOrder, rel.next)
                   ELSE grantOrder
  /\ pc' = Wake(pc, rel.next, "admitted")
  /\ UNCHANGED <<maxActive, maxQueue, acquired, status, arrived, releases, enqOrder, supVars, shutVars>>

Next ==
  \/ \E r \in Req, body \in Bodies : ArriveInvalid(r, body)
  \/ \E r \in Req, body \in Bodies : ArriveAcquire(r, body)
  \/ \E r \in Req : EnterRender(r)
  \/ \E r \in Req, ok \in BOOLEAN : RenderReturn(r, ok)
  \/ \E r \in Req, ok \in BOOLEAN : WriteReturn(r, ok)

\* The worker's gate driven by the POST /render handler only.
Spec == Init /\ [][Next]_vars

GateNext ==
  \/ Next /\ arrived' <= GateReq
  \/ StrayRelease

\* The gate driven by the handler and by unmatched release() calls.
GateSpec == Init /\ [][GateNext]_vars

\* The same for the gates constructed with maxActive <= 0.
OpenSpec == OpenInit /\ [][GateNext]_vars

TypeOK ==
  /\ maxActive \in (-MaxNegActive)..MaxActiveBound
  /\ maxQueue \in (-1)..MaxQueueBound
  /\ active \in Nat
  /\ queue \in Seq(Req)
  /\ pc \in [Req -> {"new", "queued", "admitted", "render", "write", "done"}]
  /\ acquired \in [Req -> BOOLEAN]
  /\ status \in [Req -> {NoStatus, StatusOk, StatusInvalid, StatusInternal, StatusBusy}]
  /\ arrived \in 0..NumReq
  /\ holds \in [Req -> BOOLEAN]
  /\ admitted \in [Req -> BOOLEAN]
  /\ releases \in [Req -> Nat]
  /\ enqOrder \in Seq(Req)
  /\ grantOrder \in Seq(Req)
  /\ stray \in 0..MaxStray

\* ------------------------------------------------------------ vocabulary
Bounded == maxActive > 0
Rendering == {r \in Req : pc[r] = "render"}
Queued == {r \in Req : pc[r] = "queued"}
Holders == {r \in Req : holds[r]}
Range(q) == {q[i] : i \in 1..Len(q)}

\* the requests that have called acquire(), in the order of their calls
Callers ==
  SelectSeq([i \in 1..arrived |-> i], LAMBDA r : status[r] # StatusInvalid)

NoReleaseYet == stray = 0 /\ \A r \in Req : releases[r] = 0

\* this step is the acquire() call of r
AcquireCalled(r) ==
  pc[r] = "new" /\ pc'[r] # "new" /\ status'[r] # StatusInvalid

\* this step is a release() call
ReleaseCalled ==
  \/ stray' = stray + 1
  \/ \E r \in Req : releases'[r] = releases[r] + 1

\* ------------------------------------------------------------ supervisor
Min(a, b) == IF a < b THEN a ELSE b
Max(a, b) == IF a > b THEN a ELSE b

\* Values of the WORKERS setting: unset, the empty string, a text parseInt
\* turns into NaN, and the texts parseInt turns into the integer n.
EnvValues ==
  {[kind |-> k, n |-> 0] : k \in {"unset", "empty", "text"}}
    \cup {[kind |-> "int", n |-> i] : i \in (-1)..MaxWorkersEnv}

parsePositiveInteger(value, fallback) ==
  IF value.kind \in {"unset", "empty"} THEN fallback
  ELSE IF value.kind = "int" /\ value.n > 0 THEN value.n
  ELSE fallback

\* faulty variant: the request is not capped by the parallelism
determineWorkerCountUncapped(copy, value, parallelism) ==
  LET requested ==
        parsePositiveInteger(value,
                             IF copy = 1 THEN DefaultWorkers ELSE parallelism)
  IN Max(1, requested)

\* the first definition falls back to 4, the second to the parallelism
determineWorkerCount(copy, value, parallelism) ==
  LET requested ==
        parsePositiveInteger(value,
                             IF copy = 1 THEN DefaultWorkers ELSE parallelism)
  IN Max(1, Min(parallelism, requested))

\* The (code, signal) pairs of a worker's 'exit' event: an exit code and no
\* signal, or no exit code and the signal that killed the worker.
ExitKinds ==
  {[code |-> c, signal |-> "none"] : c \in {0, 1}}
    \cup {[code |-> NullCode, signal |-> sg] : sg \in {"SIGINT", "SIGTERM", "SIGKILL"}}

\* faulty variant: every signal counts as graceful
GracefulAnySignal(code, signal) == code = 0 \/ signal # "none"

\* const graceful = code === 0 || signal === 'SIGINT' || signal === 'SIGTERM'
Graceful(code, signal) == code = 0 \/ signal = "SIGINT" \/ signal = "SIGTERM"

\* faulty variant: the handler stops forking after two restarts
ShouldRestartCapped(copy, code, signal) ==
  restarts < 2 /\ (IF copy = 1 THEN ~Graceful(code, signal) ELSE TRUE)

\* Does the 'exit' handler fork?  The first definition returns early for a
\* graceful exit, the second one forks for every exit.
ShouldRestart(copy, code, signal) ==
  IF copy = 1 THEN ~Graceful(code, signal) ELSE TRUE

\* faulty variant: the fork loop runs once too often
BootstrapOneMore(value, parallelism) ==
  LET n == determineWorkerCount(bootstrapCopy, value, parallelism)
      ids == nextId..(nextId + n)
  IN /\ workerCount = 0
     /\ workerCount' = n
     /\ workers' = workers \cup ids
     /\ workerEnv' = [w \in WorkerIds |-> IF w \in ids THEN n ELSE workerEnv[w]]
     /\ nextId' = nextId + n + 1
     /\ bootInput' = [value |-> value, parallelism |-> parallelism]
     /\ UNCHANGED <<gateVars, reqVars, histVars, shutVars, bootstrapCopy,
                    exitEvents, exits, restarts, cleanExits, shutdownDone>>

\* The primary runs bootstrap: it resolves the worker count and forks that
\* many workers, each with SERVER_WORKER_COUNT set to it.
Bootstrap(value, parallelism) ==
  LET n == determineWorkerCount(bootstrapCopy, value, parallelism)
      ids == nextId..(nextId + n - 1)
  IN /\ workerCount = 0
     /\ workerCount' = n
     /\ workers' = workers \cup ids
     /\ workerEnv' = [w \in WorkerIds |-> IF w \in ids THEN n ELSE workerEnv[w]]
     /\ nextId' = nextId + n
     /\ bootInput' = [value |-> value, parallelism |-> parallelism]
     /\ UNCHANGED <<gateVars, reqVars, histVars, shutVars, bootstrapCopy,
                    exitEvents, exits, restarts, cleanExits, shutdownDone>>

\* A worker process terminates; cluster emits its 'exit' event.
WorkerExit(w, kind) ==
  /\ w \in workers
  /\ exits < MaxExits
  /\ exits' = exits + 1
  /\ workers' = workers \ {w}
  /\ exitEvents' =
       Append(exitEvents, [id |-> w, code |-> kind.code, signal |-> kind.signal])
  /\ cleanExits' = IF kind.code = 0 \/ kind.signal \in {"SIGINT", "SIGTERM"}
                   THEN cleanExits + 1 ELSE cleanExits
  /\ UNCHANGED <<gateVars, reqVars, histVars, shutVars, bootstrapCopy,
                 workerCount, workerEnv, nextId, restarts, bootInput,
                 shutdownDone>>

\* A worker that received SIGINT or SIGTERM ends its shutdown: the callback
\* of server.close or the forced-exit timer calls process.exit(0).
WorkerShutdownExit(w) ==
  /\ w \in workers
  /\ exits < MaxExits
  /\ exits' = exits + 1
  /\ workers' = workers \ {w}
  /\ exitEvents' =
       Append(exitEvents, [id |-> w, code |-> ExitStatus, signal |-> "none"])
  /\ cleanExits' = cleanExits + 1
  /\ shutdownDone' = shutdownDone \cup {w}
  /\ UNCHANGED <<gateVars, reqVars, histVars, shutVars, bootstrapCopy,
                 workerCount, workerEnv, nextId, restarts, bootInput>>

\* faulty variant: the handler forks two workers for one exit
HandleExitForkTwice ==
  /\ exitEvents # <<>>
  /\ exitEvents' = Tail(exitEvents)
  /\ LET e == Head(exitEvents) IN
     IF ShouldRestart(bootstrapCopy, e.code, e.signal)
     THEN /\ workers' = workers \cup ({nextId, nextId + 1} \cap WorkerIds)
          /\ workerEnv' = [w \in WorkerIds |->
                             IF w \in {nextId, nextId + 1} THEN workerCount
                             ELSE workerEnv[w]]
          /\ nextId' = nextId + 2
          /\ restarts' = restarts + 1
     ELSE UNCHANGED <<workers, workerEnv, nextId, restarts>>
  /\ UNCHANGED <<gateVars, reqVars, histVars, shutVars, bootstrapCopy,
                 workerCount, exits, bootInput, cleanExits, shutdownDone>>

\* The primary's cluster.on('exit') handler runs for the oldest event.
HandleExit ==
  /\ exitEvents # <<>>
  /\ exitEvents' = Tail(exitEvents)
  /\ LET e == Head(exitEvents) IN
     IF ShouldRestart(bootstrapCopy, e.code, e.signal)
     THEN /\ workers' = workers \cup {nextId}
          /\ workerEnv' = [workerEnv EXCEPT ![nextId] = workerCount]
          /\ nextId' = nextId + 1
          /\ restarts' = restarts + 1
     ELSE UNCHANGED <<workers, workerEnv, nextId, restarts>>
  /\ UNCHANGED <<gateVars, reqVars, histVars, shutVars, bootstrapCopy,
                 workerCount, exits, bootInput, cleanExits, shutdownDone>>

\* The primary process: it has no gate and serves no request.
SupInit ==
  /\ maxActive = 0
  /\ maxQueue = 0
  /\ InitState
  /\ bootstrapCopy \in {1, 2}
  /\ NoWorkers
  /\ NoServer

SupNext ==
  \/ \E value \in EnvValues, parallelism \in 1..MaxParallelism :
       Bootstrap(value, parallelism)
  \/ \E w \in WorkerIds, kind \in ExitKinds : WorkerExit(w, kind)
  \/ \E w \in WorkerIds : WorkerShutdownExit(w)
  \/ HandleExit

SupSpec == SupInit /\ [][SupNext]_vars

\* this step is the 'exit' handler running for the event Head(exitEvents)
HandlesExit == exitEvents # <<>> /\ exitEvents' = Tail(exitEvents)

\* a clean exit, or a termination by SIGINT or SIGTERM
CleanExit(e) == e.code = 0 \/ e.signal \in {"SIGINT", "SIGTERM"}

\* -------------------------------------------------------------- shutdown
\* the process has not terminated
Alive == procExit = Running

\* faulty variant: server.close leaves the listener accepting
serverCloseNoop(wasListening) == wasListening

\* server.close(): the listener stops accepting connections
serverClose(wasListening) == FALSE

\* A response has been sent for every request whose handler has started, so
\* no connection carries a request.
Drained == \A r \in Req : pc[r] \in {"new", "done"}

\* The process receives SIGINT or SIGTERM.  The listener process.once
\* installed is removed before it runs shutdown(signal), which returns at
\* once if shuttingDown is set, and otherwise sets it, closes the listener
\* and starts the forced-exit timer.  A signal whose listener is gone gets
\* the default action of the signal: it terminates the process.
Signal(sig) ==
  /\ Alive
  /\ signals < MaxSignals
  /\ signals' = signals + 1
  /\ IF sig \in sigHandlers
     THEN /\ sigHandlers' = sigHandlers \ {sig}
          /\ IF shuttingDown
             THEN UNCHANGED <<shuttingDown, listening, closeCalls, timers,
                              queuedAtShutdown>>
             ELSE /\ shuttingDown' = TRUE
                  /\ listening' = serverClose(listening)
                  /\ closeCalls' = closeCalls + 1
                  /\ timers' = timers + 1
                  /\ queuedAtShutdown' = queue
          /\ UNCHANGED procExit
     ELSE /\ procExit' = [by |-> "signal", code |-> NullCode, signal |-> sig]
          /\ UNCHANGED <<shuttingDown, listening, closeCalls, timers,
                         sigHandlers, queuedAtShutdown>>
  /\ UNCHANGED <<gateVars, reqVars, histVars, supVars>>

\* The callback of server.close runs once the listener is closed and every
\* connection has ended: process.exit(0).
Drain ==
  /\ Alive
  /\ closeCalls > 0
  /\ ~listening
  /\ Drained
  /\ procExit' = [by |-> "drain", code |-> ExitStatus, signal |-> "none"]
  /\ UNCHANGED <<gateVars, reqVars, histVars, supVars, listening, shuttingDown,
                 sigHandlers, closeCalls, timers, signals,
                 queuedAtShutdown>>

\* The forced-exit timer fires 5000 ms after shutdown began:
\* process.exit(0), whatever is outstanding.
TimerFire ==
  /\ Alive
  /\ timers > 0
  /\ procExit' = [by |-> "timer", code |-> ExitStatus, signal |-> "none"]
  /\ UNCHANGED <<gateVars, reqVars, histVars, supVars, listening, shuttingDown,
                 sigHandlers, closeCalls, timers, signals,
                 queuedAtShutdown>>

\* A worker process: requests arrive while the listener accepts, handlers
\* run while the process lives, and signals arrive at any time.
ShutNext ==
  \/ /\ Alive /\ listening
     /\ \E r \in Req, body \in Bodies : ArriveInvalid(r, body)
     /\ arrived' <= ShutReq
  \/ /\ Alive /\ listening
     /\ \E r \in Req, body \in Bodies : ArriveAcquire(r, body)
     /\ arrived' <= ShutReq
  \/ Alive /\ \E r \in Req : EnterRender(r)
  \/ Alive /\ \E r \in Req, ok \in BOOLEAN : RenderReturn(r, ok)
  \/ Alive /\ \E r \in Req, ok \in BOOLEAN : WriteReturn(r, ok)
  \/ \E sig \in Signals : Signal(sig)
  \/ Drain
  \/ TimerFire

ShutSpec == Init /\ [][ShutNext]_vars

\* this step delivers a signal to the process
SignalDelivered == signals' = signals + 1

\* ---------------------------------------------------------------- claims

\* C1: with maxActive > 0, the number of requests inside the render call
\* never exceeds maxActive, and every request inside render holds a slot
\* the gate admitted it to and that it has not released.
C1_RenderBounded ==
  Bounded =>
    /\ Cardinality(Rendering) <= maxActive
    /\ \A r \in Rendering : holds[r] /\ acquired[r] /\ releases[r] = 0

\* maxActive requests are inside render while another one waits
C1_Witness ==
  /\ maxActive = MaxActiveBound
  /\ Cardinality(Rendering) = maxActive
  /\ queue # <<>>

\* C2: with maxActive > 0, 0 <= active <= maxActive in every state, also
\* after release() calls that match no acquire().
C2_ActiveInRange == Bounded => (0 <= active /\ active <= maxActive)

\* an unmatched release() has brought active to 0 while a request is
\* still inside render
C2_Witness ==
  /\ Bounded
  /\ stray > 0
  /\ active = 0
  /\ Rendering # {}

\* C3: with maxActive > 0 and maxQueue >= 0 the number of suspended waiters
\* never exceeds maxQueue, so at most maxActive + maxQueue units of work
\* are admitted or queued.
C3_QueueBounded ==
  (Bounded /\ maxQueue >= 0) =>
    /\ Len(queue) <= maxQueue
    /\ Cardinality(Queued) <= maxQueue
    /\ Cardinality(Holders \cup Queued) <= maxActive + maxQueue

\* the gate holds maxActive + maxQueue units of work
C3_Witness ==
  /\ maxActive = MaxActiveBound
  /\ maxQueue = MaxQueueBound
  /\ Len(queue) = maxQueue
  /\ Cardinality(Holders \cup Queued) = maxActive + maxQueue

\* C4: an acquire() on a bounded gate with maxActive slots held and maxQueue
\* waiters queued (maxQueue >= 0) fails with ServiceBusyError, is not
\* enqueued and leaves active and the queue unchanged.
C4_Step ==
  \A r \in Req :
    (/\ Bounded
     /\ active = maxActive
     /\ maxQueue >= 0
     /\ Len(queue) = maxQueue
     /\ AcquireCalled(r))
    => /\ status'[r] = StatusBusy
       /\ pc'[r] = "done"
       /\ ~admitted'[r]
       /\ r \notin Range(queue')
       /\ queue' = queue
       /\ active' = active

C4_RejectWhenFull == [][C4_Step]_vars

\* a request was rejected by a full gate that has no backlog at all
C4_Witness ==
  /\ Bounded
  /\ maxQueue = 0
  /\ active = maxActive
  /\ \E r \in Req : status[r] = StatusBusy /\ pc[r] = "done"

\* C5: one release() on a bounded gate with a non-empty queue resumes
\* exactly the head of the queue, shortens the queue by one and leaves
\* active equal to maxActive.
C5_Step ==
  (Bounded /\ queue # <<>> /\ ReleaseCalled)
  => /\ queue' = Tail(queue)
     /\ Len(queue') = Len(queue) - 1
     /\ active' = maxActive
     /\ pc[Head(queue)] = "queued"
     /\ pc'[Head(queue)] = "admitted"
     /\ admitted'[Head(queue)]
     /\ \A r \in Req \ {Head(queue)} : pc[r] = "queued" => pc'[r] = "queued"

C5_ReleaseHandsOff == [][C5_Step]_vars

\* a release() has resumed the head waiter and another waiter is still queued
C5_Witness ==
  /\ Bounded
  /\ grantOrder # <<>>
  /\ pc[grantOrder[Len(grantOrder)]] = "admitted"
  /\ queue # <<>>
  /\ active = maxActive

\* C6: suspended callers are admitted strictly in the order in which their
\* acquire() calls suspended: the waiters resumed so far, followed by the
\* waiters still queued, are the suspended callers in their arrival order.
C6_Fifo ==
  /\ grantOrder \o queue = enqOrder
  /\ \A i, j \in 1..Len(enqOrder) :
       (i < j /\ admitted[enqOrder[j]]) => admitted[enqOrder[i]]

\* two waiters were resumed, one after the other, while a third one waits
C6_Witness ==
  /\ Len(grantOrder) >= 2
  /\ queue # <<>>
  /\ stray > 0

\* C7: release() hands the slot over.  In a bounded gate a non-empty queue
\* implies active = maxActive, a caller is admitted immediately only when
\* the queue is empty, and only when fewer than maxActive callers hold a
\* slot, the resumed waiters that have not continued yet included.
C7_Step ==
  \A r \in Req :
    (Bounded /\ AcquireCalled(r) /\ pc'[r] = "admitted")
    => /\ queue = <<>>
       /\ Cardinality(Holders) < maxActive
       /\ Cardinality(Holders') <= maxActive

C7_HandOff ==
  /\ [](Bounded /\ queue # <<>> => active = maxActive)
  /\ [](Bounded => Cardinality(Holders) = active)
  /\ [][C7_Step]_vars

\* with a backlog of one: the waiter w was resumed and has not continued,
\* and the caller f, which arrived after that release(), had to queue
C7_Witness ==
  /\ Bounded
  /\ maxQueue = 1
  /\ \E w, f \in Req :
       /\ w < f
       /\ w \in Range(grantOrder)
       /\ pc[w] = "admitted"
       /\ queue = <<f>>

\* C8: on a bounded gate every acquire() issued while active < maxActive
\* increments active and returns without suspending and without touching
\* the queue; on a fresh gate up to maxActive acquire() calls are all
\* admitted, with active equal to their number and an empty queue.
C8_Step ==
  \A r \in Req :
    (Bounded /\ active < maxActive /\ AcquireCalled(r))
    => /\ active' = active + 1
       /\ queue' = queue
       /\ pc'[r] = "admitted"
       /\ admitted'[r]
       /\ status'[r] = NoStatus

C8_Fresh ==
  (Bounded /\ NoReleaseYet /\ Len(Callers) <= maxActive)
  => /\ active = Len(Callers)
     /\ queue = <<>>
     /\ \A r \in Range(Callers) : admitted[r]

C8_ImmediateAdmission == [][C8_Step]_vars /\ []C8_Fresh

\* maxActive acquire() calls on a fresh gate, none of the callers has
\* continued yet
C8_Witness ==
  /\ maxActive = MaxActiveBound
  /\ NoReleaseYet
  /\ Len(Callers) = maxActive
  /\ \A r \in Range(Callers) : pc[r] = "admitted"
  /\ active = maxActive
  /\ queue = <<>>

\* C9: on a bounded gate with backlog maxQueue > 0, all maxActive slots held
\* and an empty queue, the next maxQueue acquire() calls all suspend, none
\* is rejected or admitted, they are enqueued in arrival order, and the
\* queue length reaches maxQueue while active stays maxActive.
C9_Step ==
  \A r \in Req :
    (/\ Bounded
     /\ active = maxActive
     /\ maxQueue > 0
     /\ Len(queue) < maxQueue
     /\ AcquireCalled(r))
    => /\ queue' = Append(queue, r)
       /\ active' = active
       /\ pc'[r] = "queued"
       /\ ~admitted'[r]
       /\ status'[r] = NoStatus

C9_Fresh ==
  LET k == Len(Callers) IN
  (/\ Bounded
   /\ maxQueue > 0
   /\ NoReleaseYet
   /\ maxActive < k
   /\ k <= maxActive + maxQueue)
  => /\ active = maxActive
     /\ queue = SubSeq(Callers, maxActive + 1, k)
     /\ \A r \in Range(queue) : pc[r] = "queued" /\ status[r] = NoStatus

C9_SuspendInOrder == [][C9_Step]_vars /\ []C9_Fresh

\* maxActive slots held and maxQueue callers suspended, no release() yet
C9_Witness ==
  /\ maxActive = MaxActiveBound
  /\ maxQueue = MaxQueueBound
  /\ NoReleaseYet
  /\ Len(Callers) = maxActive + maxQueue
  /\ Len(queue) = maxQueue
  /\ active = maxActive

\* C10: every request the gate admitted calls release() exactly once before
\* its handler finishes, whatever the exit path, and no other request calls
\* it; when all admitted requests have finished active is 0.
C10_ReleaseOnce ==
  /\ \A r \in Req :
       /\ releases[r] <= 1
       /\ pc[r] = "done" => releases[r] = (IF admitted[r] THEN 1 ELSE 0)
       /\ pc[r] # "done" => releases[r] = 0
       /\ holds[r] <=> admitted[r] /\ releases[r] = 0
  /\ (\A r \in Req : pc[r] \in {"new", "done"}) => active = 0 /\ queue = <<>>

\* all requests have finished: one was answered 200, one 500, and one of
\* the admitted ones had been suspended
C10_Witness ==
  /\ Bounded
  /\ arrived = NumReq
  /\ \A r \in Req : pc[r] = "done"
  /\ \E r \in Req : status[r] = StatusOk /\ releases[r] = 1
  /\ \E r \in Req : status[r] = StatusInternal /\ releases[r] = 1
  /\ \E r \in Range(grantOrder) : releases[r] = 1
  /\ active = 0

\* C11: a caller enqueued by acquire() leaves the queue only by being
\* granted a slot by a release(); a queued caller is never rejected,
\* timed out or cancelled, and ServiceBusyError is raised only by an
\* acquire() call that has not suspended.
C11_Step ==
  \A r \in Req :
    /\ (r \in Range(queue) /\ r \notin Range(queue'))
         => (ReleaseCalled /\ r = Head(queue) /\ pc'[r] = "admitted" /\ admitted'[r])
    /\ pc[r] = "queued"
         => (pc'[r] \in {"queued", "admitted"} /\ status'[r] = NoStatus)
    /\ (status[r] # StatusBusy /\ status'[r] = StatusBusy)
         => (pc[r] = "new" /\ r \notin Range(enqOrder'))

C11_Inv ==
  \A r \in Req :
    /\ pc[r] = "queued" <=> r \in Range(queue)
    /\ status[r] = StatusBusy => r \notin Range(enqOrder)

C11_QueuedUntilGranted == [][C11_Step]_vars /\ []C11_Inv

\* a waiter was granted a slot after a later caller had been rejected, and
\* another waiter is still queued
C11_Witness ==
  /\ grantOrder # <<>>
  /\ queue # <<>>
  /\ \E b \in Req : status[b] = StatusBusy /\ b > Head(queue)

\* Fairness of the event loop: the continuation of a resolved await runs,
\* and the render and write operations of an admitted request settle.
Progress(r) ==
  \/ EnterRender(r)
  \/ \E ok \in BOOLEAN : RenderReturn(r, ok)
  \/ \E ok \in BOOLEAN : WriteReturn(r, ok)

Fairness == \A r \in Req : WF_vars(Progress(r))

LiveNext == Next /\ arrived' <= LiveReq

\* The handler-driven gate in which every admitted request runs on to its
\* release().
LiveSpec == Init /\ [][LiveNext]_vars /\ Fairness

\* C12: no starvation: when every admitted caller eventually calls
\* release(), every caller suspended in the queue is eventually admitted.
C12_NoStarvation == \A r \in Req : (pc[r] = "queued") ~> admitted[r]

\* two callers were suspended and both have been admitted
C12_Witness ==
  /\ Bounded
  /\ Len(enqOrder) >= 2
  /\ queue = <<>>
  /\ \A r \in Range(enqOrder) : admitted[r]

\* C13: release() on a bounded gate with active = 0 leaves active at 0 and
\* resumes no waiter; active = 0 implies an empty queue, so that release()
\* changes nothing in the gate.
C13_Step ==
  (Bounded /\ active = 0 /\ ReleaseCalled)
  => /\ active' = 0
     /\ queue' = queue
     /\ grantOrder' = grantOrder
     /\ admitted' = admitted
     /\ \A r \in Req : pc[r] = "queued" => pc'[r] = "queued"

C13_OverRelease ==
  /\ [][C13_Step]_vars
  /\ [](Bounded /\ active = 0 => queue = <<>> /\ Queued = {})

\* release() was called on a fresh bounded gate
C13_Witness ==
  /\ Bounded
  /\ stray > 0
  /\ arrived = 0
  /\ active = 0

\* C14: a gate constructed with maxActive <= 0 is transparent: every
\* acquire() returns at once, without suspending or rejecting, whatever the
\* number of outstanding calls; release() changes nothing; getActiveCount()
\* and getQueueSize() return 0 in every state.
C14_Step ==
  ~Bounded =>
    /\ \A r \in Req :
         AcquireCalled(r)
           => (pc'[r] = "admitted" /\ admitted'[r] /\ status'[r] = NoStatus)
    /\ ReleaseCalled
         => (active' = active /\ queue' = queue /\ grantOrder' = grantOrder)

C14_Inv ==
  ~Bounded =>
    /\ getActiveCount = 0
    /\ getQueueSize = 0
    /\ active = 0
    /\ queue = <<>>
    /\ \A r \in Req : pc[r] # "queued" /\ status[r] # StatusBusy

C14_Transparent == [][C14_Step]_vars /\ []C14_Inv

\* every request is inside render at once, and release() has been called
C14_Witness ==
  /\ maxActive <= 0
  /\ Cardinality(Rendering) = GateReq
  /\ stray > 0

\* C15: a bounded gate constructed with maxQueue < 0 never rejects: every
\* acquire() issued while all slots are held suspends, however many waiters
\* are queued, and the waiters are admitted in FIFO order.
C15_Step ==
  \A r \in Req :
    (Bounded /\ maxQueue < 0 /\ active = maxActive /\ AcquireCalled(r))
    => /\ queue' = Append(queue, r)
       /\ pc'[r] = "queued"
       /\ status'[r] = NoStatus
       /\ active' = active

C15_Inv ==
  (Bounded /\ maxQueue < 0) =>
    /\ \A r \in Req : status[r] # StatusBusy
    /\ grantOrder \o queue = enqOrder
    /\ Queued = Range(queue)

C15_UnboundedBacklog == [][C15_Step]_vars /\ []C15_Inv

\* more waiters than any configured backlog, after one of them was resumed
C15_Witness ==
  /\ Bounded
  /\ maxQueue < 0
  /\ Len(queue) > MaxQueueBound
  /\ grantOrder # <<>>

\* C16: a request whose body fails validation is answered 400 before
\* acquire() is called: it changes neither active nor the queue, never
\* occupies a slot, never calls release(), and is answered also when the
\* gate is full.
C16_Step ==
  \A r \in Req :
    (pc[r] = "new" /\ status'[r] = StatusInvalid)
    => /\ pc'[r] = "done"
       /\ active' = active
       /\ queue' = queue
       /\ holds' = holds
       /\ admitted' = admitted
       /\ releases' = releases
       /\ enqOrder' = enqOrder
       /\ grantOrder' = grantOrder

C16_Inv ==
  \A r \in Req :
    status[r] = StatusInvalid
    => /\ pc[r] = "done"
       /\ ~admitted[r]
       /\ ~holds[r]
       /\ ~acquired[r]
       /\ releases[r] = 0
       /\ r \notin Range(enqOrder)

C16_InvalidBeforeAcquire == [][C16_Step]_vars /\ []C16_Inv

\* the last request was answered 400 while all slots were held and the
\* backlog was full: no release() has been called yet
C16_Witness ==
  /\ Bounded
  /\ maxQueue >= 0
  /\ NoReleaseYet
  /\ active = maxActive
  /\ Len(queue) = maxQueue
  /\ arrived > 0
  /\ status[arrived] = StatusInvalid
  /\ \A r \in 1..(arrived - 1) : status[r] # StatusInvalid

\* C17: a request is answered 503 exactly when its acquire() was rejected
\* because the backlog was full; such a request never enters render and
\* never calls release(), and neither invalid input nor a render failure
\* is answered 503.
C17_Step ==
  \A r \in Req :
    /\ (status[r] # StatusBusy /\ status'[r] = StatusBusy)
         <=> (/\ AcquireCalled(r)
              /\ Bounded
              /\ active >= maxActive
              /\ maxQueue >= 0
              /\ Len(queue) >= maxQueue)
    /\ (pc[r] \in {"render", "write"} /\ pc'[r] = "done")
         => status'[r] \in {StatusOk, StatusInternal}
    /\ status[r] # NoStatus => status'[r] = status[r]

C17_Inv ==
  \A r \in Req :
    status[r] = StatusBusy
    => /\ pc[r] = "done"
       /\ ~admitted[r]
       /\ ~acquired[r]
       /\ releases[r] = 0
       /\ r \notin Range(enqOrder)

C17_BusyIffRejected == [][C17_Step]_vars /\ []C17_Inv

\* one request was answered 503, one 400 and one 500
C17_Witness ==
  /\ \E r \in Req : status[r] = StatusBusy
  /\ \E r \in Req : status[r] = StatusInvalid
  /\ \E r \in Req : status[r] = StatusInternal /\ releases[r] = 1

\* The scenario of capacity 2 and backlog 2 in which five valid requests
\* arrive together: the fifth finds both slots held and both backlog places
\* taken, which is the case exactly when it is rejected.
FiveTogether ==
  /\ maxActive = 2
  /\ maxQueue = 2
  /\ arrived >= 5
  /\ \A r \in 1..5 : status[r] # StatusInvalid
  /\ status[5] = StatusBusy

\* what the scenario's first part says: requests 1 and 2 are admitted at
\* once, 3 and 4 are queued in this order, 5 is rejected, and the first
\* release() starts request 3
ScenarioStart ==
  /\ admitted[1] /\ admitted[2]
  /\ 1 \notin Range(enqOrder) /\ 2 \notin Range(enqOrder)
  /\ Len(enqOrder) >= 2 /\ enqOrder[1] = 3 /\ enqOrder[2] = 4
  /\ ~admitted[5] /\ pc[5] = "done"
  /\ (pc[1] = "done" \/ pc[2] = "done") => admitted[3]
  /\ (pc[1] = "done" /\ pc[2] = "done") => admitted[4]

\* C18 as stated: in the scenario the queued requests also complete in
\* their arrival order, request 4 never before request 3.
C18_Original ==
  FiveTogether => (ScenarioStart /\ (pc[4] = "done" => pc[3] = "done"))

\* C18, amended: in the scenario requests 1 and 2 start at once, 3 and 4
\* are queued, 5 is rejected, the first release() starts request 3, and the
\* queued requests are admitted in their arrival order.
C18_Scenario ==
  FiveTogether =>
    /\ ScenarioStart
    /\ admitted[4] => admitted[3]
    /\ Len(grantOrder) >= 1 => grantOrder[1] = 3
    /\ Len(grantOrder) >= 2 => grantOrder[2] = 4

\* the scenario has run to its end: request 4 has completed, after request
\* 3 was admitted first
C18_Witness ==
  /\ FiveTogether
  /\ Len(grantOrder) >= 2
  /\ pc[3] = "done"
  /\ pc[4] = "done"
  /\ status[4] = StatusOk

\* C19: when a worker terminates with exit code 0, or is terminated by
\* SIGINT or SIGTERM, the supervisor spawns no replacement for it.
C19_Step ==
  (HandlesExit /\ CleanExit(Head(exitEvents)))
  => /\ workers' = workers
     /\ nextId' = nextId
     /\ restarts' = restarts

C19_NoRestartAfterCleanExit == [][C19_Step]_vars

\* C20: when a worker terminates with a non-zero exit code or by a signal
\* other than SIGINT and SIGTERM, the supervisor spawns exactly one
\* replacement for that exit event, with SERVER_WORKER_COUNT equal to the
\* worker count resolved at startup, as the original workers have it.
C20_Step ==
  (HandlesExit /\ ~CleanExit(Head(exitEvents)))
  => /\ workers' \ workers = {nextId}
     /\ workers \subseteq workers'
     /\ restarts' = restarts + 1
     /\ workerEnv'[nextId] = workerCount
     /\ \A w \in workers : workerEnv'[w] = workerEnv[w]

C20_Inv ==
  /\ \A w \in workers : workerEnv[w] = workerCount /\ workerCount >= 1
  /\ restarts <= exits

C20_RestartAfterCrash == [][C20_Step]_vars /\ []C20_Inv

\* the first definition of bootstrap has replaced the one worker that
\* terminated, which it does only for an exit that was not clean
C20_Witness ==
  /\ bootstrapCopy = 1
  /\ workerCount >= 2
  /\ exits = 1
  /\ restarts = 1
  /\ exitEvents = <<>>
  /\ Cardinality(workers) = workerCount

\* C21 as the specification states it: whenever every worker-exit event
\* emitted so far has been handled, the number of live workers equals the
\* worker count N resolved at startup.
C21_Original ==
  (workerCount > 0 /\ exitEvents = <<>>) => Cardinality(workers) = workerCount

\* C21: whenever every worker-exit event emitted so far has been handled,
\* the number of live workers is N less the exits that were not replaced:
\* it is at most N, at least N less the number of clean exits (code 0,
\* SIGINT, SIGTERM), and exactly N when no worker has exited cleanly.
C21_LiveWorkers ==
  (workerCount > 0 /\ exitEvents = <<>>)
  => /\ Cardinality(workers) = workerCount - (exits - restarts)
     /\ Cardinality(workers) <= workerCount
     /\ Cardinality(workers) >= workerCount - cleanExits
     /\ cleanExits = 0 => Cardinality(workers) = workerCount

\* every exit was a crash, every one has been handled, and N workers live
C21_Witness ==
  /\ workerCount >= 2
  /\ exits = MaxExits
  /\ cleanExits = 0
  /\ exitEvents = <<>>
  /\ Cardinality(workers) = workerCount

\* C22: on startup the primary spawns exactly N workers, N the resolved
\* worker count, and every one of them has SERVER_WORKER_COUNT = N in its
\* environment; the primary itself never opens an HTTP listener, never
\* installs the shutdown listeners and never drives a gate.
C22_Step ==
  (workerCount = 0 /\ workerCount' # 0)
  => /\ workerCount' >= 1
     /\ Cardinality(workers') = workerCount'
     /\ \A w \in workers' : workerEnv'[w] = workerCount'
     /\ \A w \in WorkerIds \ workers' : workerEnv'[w] = NoEnv
     /\ exits' = 0 /\ restarts' = 0

C22_Inv ==
  /\ ~listening
  /\ sigHandlers = {}
  /\ arrived = 0
  /\ active = 0
  /\ queue = <<>>
  /\ (exits = 0 /\ workerCount > 0) => Cardinality(workers) = workerCount

C22_Startup == [][C22_Step]_vars /\ []C22_Inv

\* bootstrap has just forked the largest worker count and no worker has
\* exited yet
C22_Witness ==
  /\ workerCount = MaxParallelism
  /\ Cardinality(workers) = MaxParallelism
  /\ \A w \in workers : workerEnv[w] = MaxParallelism
  /\ exits = 0
\* C26: the resolved worker count N satisfies 1 <= N <= parallelism for
\* every value of the WORKERS setting (unset, empty, non-numeric, zero,
\* negative, larger than the parallelism) and every parallelism >= 1.
C26_WorkerCountRange ==
  workerCount # 0
  => /\ bootInput.parallelism >= 1
     /\ 1 <= workerCount
     /\ workerCount <= bootInput.parallelism

\* WORKERS asks for more workers than the parallelism allows
C26_Witness ==
  /\ bootInput.value = [kind |-> "int", n |-> MaxWorkersEnv]
  /\ bootInput.parallelism = MaxParallelism - 1
  /\ workerCount = MaxParallelism - 1

\* C27: the supervisor has no backoff and no cap on restarts: as long as
\* every exit is a crash, every handled exit has been answered by a fork,
\* however many restarts came before, and a pending exit event can always
\* be handled at once.
C27_NoRestartCap ==
  /\ cleanExits = 0 => restarts + Len(exitEvents) = exits
  /\ exitEvents # <<>> => ENABLED HandleExit

\* one worker, and each replacement crashed in turn: every exit allowed in
\* one behaviour has been answered by a restart
C27_Witness ==
  /\ workerCount = 1
  /\ cleanExits = 0
  /\ exits = MaxExits
  /\ restarts = MaxExits
  /\ workers = {nextId - 1}

\* C29: the number of live workers never exceeds N, whatever the exits and
\* restarts; counting the exits not handled yet it still does not.
C29_AtMostN == Cardinality(workers) + Len(exitEvents) <= workerCount

\* the second definition of bootstrap has re-forked after every exit, clean
\* ones included, and N workers live
C29_Witness ==
  /\ bootstrapCopy = 2
  /\ workerCount >= 2
  /\ cleanExits >= 1
  /\ restarts = MaxExits
  /\ Cardinality(workers) = workerCount

\* C30: a worker that received SIGINT or SIGTERM and ended its own shutdown
\* (by drain or by the timer) terminated with exit code 0, and the
\* supervisor does not replace it: handling its exit event forks nothing.
C30_Step ==
  (HandlesExit /\ Head(exitEvents).id \in shutdownDone)
  => /\ Head(exitEvents).code = ExitStatus
     /\ workers' = workers
     /\ restarts' = restarts
     /\ nextId' = nextId

C30_ShutdownNotReplaced == [][C30_Step]_vars
\* C28: for a bounded gate driven only by the handler, active equals the
\* number of requests that were granted a slot and have not released it
\* yet, in every state; a request that is rejected as busy or refused as
\* invalid changes neither active nor the queue.
C28_Granted == {r \in Req : admitted[r] /\ releases[r] = 0}

C28_Inv == Bounded => active = Cardinality(C28_Granted)

C28_Step ==
  \A r \in Req :
    (status[r] = NoStatus /\ status'[r] \in {StatusBusy, StatusInvalid})
    => active' = active /\ queue' = queue

C28_ActiveCountsGranted == []C28_Inv /\ [][C28_Step]_vars

\* both slots are granted and not released, after one request gave its
\* slot back, one was rejected as busy and one was refused as invalid
C28_Witness ==
  /\ Bounded
  /\ active = MaxActiveBound
  /\ Cardinality(C28_Granted) = MaxActiveBound
  /\ \E r \in Req : releases[r] = 1
  /\ \E r \in Req : status[r] = StatusBusy
  /\ \E r \in Req : status[r] = StatusInvalid
\* C23: shutdown is triggered at most once per process: the first SIGINT or
\* SIGTERM sets shuttingDown, closes the listener and starts the
\* forced-exit timer; any later SIGINT or SIGTERM changes nothing (no
\* second close, no second timer, the process as it was), and shuttingDown
\* never returns to false.
C23_Step ==
  /\ shuttingDown => shuttingDown'
  /\ (SignalDelivered /\ ~shuttingDown)
     => /\ shuttingDown'
        /\ ~listening'
        /\ closeCalls' = closeCalls + 1
        /\ timers' = timers + 1
  /\ (SignalDelivered /\ shuttingDown)
     => UNCHANGED <<gateVars, reqVars, shuttingDown, listening, closeCalls,
                    timers, procExit>>

C23_Inv == closeCalls <= 1 /\ timers <= 1

C23_ShutdownOnce == [][C23_Step]_vars /\ []C23_Inv

\* C24: after the first termination signal the process terminates with
\* exit status 0, on the drain or on the forced-exit timer: a process that
\* began its shutdown and has terminated has done so with status 0.
C24_ExitStatusZero ==
  (shuttingDown /\ ~Alive)
  => /\ procExit.code = ExitStatus
     /\ procExit.by \in {"drain", "timer"}

C25_Step ==
  /\ shuttingDown => arrived' = arrived
  /\ (shuttingDown /\ Bounded /\ ReleaseCalled /\ queue # <<>>)
     => /\ pc'[Head(queue)] = "admitted"
        /\ queue' = Tail(queue)
        /\ active' = active

C25_Inv ==
  /\ grantOrder \o queue = enqOrder
  /\ \A i, j \in 1..Len(queuedAtShutdown) :
       (i < j /\ admitted[queuedAtShutdown[j]]) => admitted[queuedAtShutdown[i]]
  /\ procExit.by = "drain" => Drained
  /\ \A r \in Req :
       (Alive /\ pc[r] \in {"admitted", "render", "write"})
       => ENABLED Progress(r)

====
